---- MODULE Spec2Model ----
(***************************************************************************)
(* A model of the `ps` library (src/src/lib.rs): enumeration of /proc      *)
(* (get_processes), extraction of one process (get_process), the start     *)
(* time computation (get_start_time) and the state line scan (find_state). *)
(*                                                                         *)
(* Text is a sequence of one-character strings.  Option and Result values  *)
(* are records tagged by `kind`.  f64 values are IEEE-754 doubles with     *)
(* every operation rounded to nearest, ties to even.                       *)
(***************************************************************************)
EXTENDS Integers, Sequences, FiniteSets, TLC

VARIABLES
    \* ---- the host, as get_processes sees it
    procOpen,     \* whether read_dir("/proc") succeeds
    sysconfRet,   \* what sysconf(_SC_CLK_TCK) returns on this host
    errno,        \* *__errno_location() after the sysconf call
    listing,      \* the entries read_dir yields, in directory order
    alive,        \* names of the listed processes that still exist
    \* ---- get_processes / get_process
    pc,           \* position in get_processes / get_process
    idx,          \* number of entries taken from the iterator
    seen,         \* outcome of the is_dir check of each entry taken
    tickRate,     \* system_clock_tick_rate
    cur,          \* the Process under construction in get_process
    vec,          \* vec_of_processs
    result,       \* what get_processes gave its caller
    reads,        \* per extracted process, the outcome of each source read
    vanished,     \* names whose process exited before its extraction completed
    \* ---- find_state called on one status source
    fsFile,       \* outcome of read_to_string(state_path)
    fsOut,        \* the resulting process.state
    \* ---- get_start_time called on one set of sources
    stUptime,     \* outcome of read_to_string(uptime_path)
    stStat,       \* the stat record: its comm field and its 22nd field
    stRate,       \* system_clock_tick_rate
    stClock,      \* outcome of SystemTime::now().duration_since(UNIX_EPOCH)
    stOut,        \* the result of the call
    stPrev        \* the previous call: its tick count and its result

hostVars == <<procOpen, sysconfRet, errno, listing, alive>>
enumVars == <<pc, idx, seen, tickRate, cur, vec, result, reads, vanished>>
fsVars == <<fsFile, fsOut>>
stVars == <<stUptime, stStat, stRate, stClock, stOut, stPrev>>
vars == <<hostVars, enumVars, fsVars, stVars>>

-----------------------------------------------------------------------------
(* Option and Result values *)

None == [kind |-> "None"]
Some(x) == [kind |-> "Some", val |-> x]
Ok(x) == [kind |-> "Ok", val |-> x]
Err(e) == [kind |-> "Err", err |-> e]
Panic(why) == [kind |-> "Panic", why |-> why]
IsOk(r) == r.kind = "Ok"

-----------------------------------------------------------------------------
(* Text helpers *)

Min(S) == CHOOSE x \in S : \A y \in S : x <= y

\* str::starts_with
StartsWith(s, p) ==
    /\ Len(s) >= Len(p)
    /\ \A i \in 1..Len(p) : s[i] = p[i]

\* char::is_whitespace, on the characters the model's texts use
IsWhitespace(c) == c \in {" ", "\t", "\n", "\r"}

RECURSIVE SplitOn(_, _, _)
\* the pieces of s between occurrences of sep, cur being the piece in progress
SplitOn(s, sep, piece) ==
    IF s = <<>> THEN <<piece>>
    ELSE IF Head(s) = sep THEN <<piece>> \o SplitOn(Tail(s), sep, <<>>)
    ELSE SplitOn(Tail(s), sep, Append(piece, Head(s)))

\* a line loses one trailing "\r" when a "\n" ended it
StripCr(line, ended) ==
    IF ended /\ line # <<>> /\ line[Len(line)] = "\r"
    THEN SubSeq(line, 1, Len(line) - 1)
    ELSE line

\* str::lines: split at "\n"; the final line needs no terminator and an empty
\* final piece is no line
Lines(s) ==
    LET pieces == SplitOn(s, "\n", <<>>)
        n == Len(pieces)
        kept == IF pieces[n] = <<>> THEN n - 1 ELSE n
    IN [i \in 1..kept |-> StripCr(pieces[i], i < n)]

\* str::split_once: the text before and after the first occurrence of sep
SplitOnce(s, sep) ==
    LET at == {i \in 1..Len(s) : s[i] = sep}
    IN IF at = {} THEN None
       ELSE Some(<<SubSeq(s, 1, Min(at) - 1), SubSeq(s, Min(at) + 1, Len(s))>>)

\* str::split_whitespace: the maximal runs of non-whitespace characters, in
\* order; a run starts after a whitespace character or at the start of s and
\* ends before the next whitespace character or at the end of s
SplitWhitespace(s) ==
    LET starts == {i \in 1..Len(s) :
                      ~IsWhitespace(s[i]) /\ (i = 1 \/ IsWhitespace(s[i - 1]))}
        ends == {i \in 1..Len(s) :
                    ~IsWhitespace(s[i]) /\ (i = Len(s) \/ IsWhitespace(s[i + 1]))}
        nth(S, k) == CHOOSE i \in S : Cardinality({j \in S : j <= i}) = k
    IN [k \in 1..Cardinality(starts) |-> SubSeq(s, nth(starts, k), nth(ends, k))]

RECURSIVE Concat(_)
Concat(ss) == IF ss = <<>> THEN <<>> ELSE Head(ss) \o Concat(Tail(ss))

-----------------------------------------------------------------------------
(* find_state *)

StateMarker == <<"S", "t", "a", "t", "e", ":">>

RECURSIVE ScanLines(_)
\* the for loop of find_state: the first line starting with the marker decides
ScanLines(ls) ==
    IF ls = <<>> THEN None
    ELSE IF StartsWith(Head(ls), StateMarker)
         THEN LET parts == SplitOnce(Head(ls), "\t")
              IN IF parts = None THEN None ELSE Some(parts.val[2])
         ELSE ScanLines(Tail(ls))

RECURSIVE ScanLinesSkipTabless(_)
\* a scan that passes over a marker line without a tab instead of returning
ScanLinesSkipTabless(ls) ==
    IF ls = <<>> THEN None
    ELSE IF StartsWith(Head(ls), StateMarker) /\ SplitOnce(Head(ls), "\t") # None
         THEN Some(SplitOnce(Head(ls), "\t").val[2])
         ELSE ScanLinesSkipTabless(Tail(ls))

find_state_skip_tabless(status) == ScanLinesSkipTabless(Lines(status))

find_state(status) == ScanLines(Lines(status))

\* get_process, "Process state": the state field from the status source
read_state(file) ==
    IF IsOk(file) THEN find_state(file.val) ELSE None

-----------------------------------------------------------------------------
(* Numbers and their text *)

Digits == <<"0", "1", "2", "3", "4", "5", "6", "7", "8", "9">>

IsDigit(c) == \E i \in 1..10 : Digits[i] = c

DigitVal(c) == (CHOOSE i \in 1..10 : Digits[i] = c) - 1

RECURSIVE DigitsValue(_, _)
\* the value of a digit string, acc being the value of the digits consumed
DigitsValue(ds, acc) ==
    IF ds = <<>> THEN acc ELSE DigitsValue(Tail(ds), 10 * acc + DigitVal(Head(ds)))

RECURSIVE ToDigits(_)
\* the decimal text of a natural number, as the kernel's %d / %llu prints it
ToDigits(n) ==
    IF n < 10 THEN <<Digits[n + 1]>> ELSE Append(ToDigits(n \div 10), Digits[(n % 10) + 1])

RECURSIVE StripZeros(_)
StripZeros(ds) ==
    IF Len(ds) > 1 /\ Head(ds) = "0" THEN StripZeros(Tail(ds)) ELSE ds

RECURSIVE LexLeq(_, _)
\* a <= b for digit strings of equal length
LexLeq(a, b) ==
    IF a = <<>> THEN TRUE
    ELSE IF Head(a) # Head(b) THEN DigitVal(Head(a)) < DigitVal(Head(b))
    ELSE LexLeq(Tail(a), Tail(b))

\* u32::MAX = 4294967295, as text
U32MaxDigits == <<"4", "2", "9", "4", "9", "6", "7", "2", "9", "5">>

FitsU32(ds) ==
    LET d == StripZeros(ds)
    IN Len(d) < Len(U32MaxDigits) \/ (Len(d) = Len(U32MaxDigits) /\ LexLeq(d, U32MaxDigits))

\* str::parse::<u32>: an optional "+", then one or more digits, value at most
\* u32::MAX.  (Values above 2^31 - 1 are not representable here.)
ParseU32(s) ==
    LET ds == IF s # <<>> /\ Head(s) = "+" THEN Tail(s) ELSE s
    IN IF s = <<>> THEN Err("Empty")
       ELSE IF ds = <<>> \/ \E i \in 1..Len(ds) : ~IsDigit(ds[i]) THEN Err("InvalidDigit")
       ELSE IF ~FitsU32(ds) THEN Err("PosOverflow")
       ELSE Ok(DigitsValue(ds, 0))

-----------------------------------------------------------------------------
(* Natural numbers of any size: little-endian sequences of limbs below      *)
(* LimbBase, without high zero limbs; <<>> is zero.                         *)

LimbBits == 15
LimbBase == 32768

Max(S) == CHOOSE x \in S : \A y \in S : y <= x

RECURSIVE Pow2(_)
\* 2^k, for k below 31
Pow2(k) == IF k = 0 THEN 1 ELSE 2 * Pow2(k - 1)

\* limb i of a, zero above its length
Limb(a, i) == IF i <= Len(a) THEN a[i] ELSE 0

\* a without its high zero limbs
BNorm(a) ==
    IF \A i \in 1..Len(a) : a[i] = 0 THEN <<>>
    ELSE SubSeq(a, 1, Max({i \in 1..Len(a) : a[i] # 0}))

RECURSIVE BFromInt(_)
BFromInt(n) == IF n = 0 THEN <<>> ELSE <<n % LimbBase>> \o BFromInt(n \div LimbBase)

RECURSIVE BToInt(_)
\* for a below 2^31
BToInt(a) == IF a = <<>> THEN 0 ELSE Head(a) + LimbBase * BToInt(Tail(a))

\* -1, 0 or 1 as a < b, a = b or a > b: the highest limb that differs decides
BCmp(a, b) ==
    IF Len(a) # Len(b) THEN (IF Len(a) < Len(b) THEN -1 ELSE 1)
    ELSE IF a = b THEN 0
    ELSE IF a[Max({i \in 1..Len(a) : a[i] # b[i]})] < b[Max({i \in 1..Len(a) : a[i] # b[i]})]
         THEN -1 ELSE 1

\* a + b, limb by limb; a carry enters limb i when a limb below it overflows
\* and every limb between is full
BAdd(a, b) ==
    LET n == IF Len(a) > Len(b) THEN Len(a) ELSE Len(b)
        s == [i \in 1..(n + 1) |-> Limb(a, i) + Limb(b, i)]
        carry == [i \in 1..(n + 1) |->
                     IF \E j \in 1..(i - 1) :
                            s[j] >= LimbBase /\ \A k \in (j + 1)..(i - 1) : s[k] = LimbBase - 1
                     THEN 1 ELSE 0]
    IN BNorm([i \in 1..(n + 1) |-> (s[i] + carry[i]) % LimbBase])

\* a - b, for a >= b; a borrow enters limb i when a limb below it falls short
\* and every limb between is level
BSub(a, b) ==
    LET d == [i \in 1..Len(a) |-> a[i] - Limb(b, i)]
        borrow == [i \in 1..Len(a) |->
                      IF \E j \in 1..(i - 1) :
                             d[j] < 0 /\ \A k \in (j + 1)..(i - 1) : d[k] = 0
                      THEN 1 ELSE 0]
    IN BNorm([i \in 1..Len(a) |-> (d[i] - borrow[i] + LimbBase) % LimbBase])

\* a * k, for 0 <= k <= LimbBase: the low parts of the limb products, plus
\* their high parts one limb up
BMulSmall(a, k) ==
    BAdd([i \in 1..Len(a) |-> (a[i] * k) % LimbBase],
         [i \in 1..(Len(a) + 1) |-> IF i = 1 THEN 0 ELSE (a[i - 1] * k) \div LimbBase])

\* a * LimbBase^w
BShlLimbs(a, w) == IF a = <<>> THEN <<>> ELSE [i \in 1..w |-> 0] \o a

\* a * 2^k
BShl(a, k) == BShlLimbs(BMulSmall(a, Pow2(k % LimbBits)), k \div LimbBits)

\* a div 2^k
BShr(a, k) ==
    LET w == k \div LimbBits
        r == k % LimbBits
    IN BNorm([i \in 1..(Len(a) - w) |->
                 (Limb(a, i + w) \div Pow2(r))
                     + (Limb(a, i + w + 1) % Pow2(r)) * Pow2(LimbBits - r)])

RECURSIVE BMul(_, _)
\* a * b, by halves of b
BMul(a, b) ==
    IF a = <<>> \/ b = <<>> THEN <<>>
    ELSE IF Len(b) = 1 THEN BMulSmall(a, b[1])
    ELSE BAdd(BMul(a, BNorm(SubSeq(b, 1, Len(b) \div 2))),
              BShlLimbs(BMul(a, SubSeq(b, (Len(b) \div 2) + 1, Len(b))), Len(b) \div 2))

RECURSIVE BitLenInt(_)
BitLenInt(n) == IF n = 0 THEN 0 ELSE 1 + BitLenInt(n \div 2)

\* the number of bits of a
BitLen(a) == IF a = <<>> THEN 0 ELSE LimbBits * (Len(a) - 1) + BitLenInt(a[Len(a)])

BIsOdd(a) == a # <<>> /\ a[1] % 2 = 1

\* the quotient limbs qs with one more limb q below them
BPushLimb(q, qs) == IF q = 0 /\ qs = <<>> THEN <<>> ELSE <<q>> \o qs

\* one step of long division by one limb d: above is <<quotient, remainder>>
\* for the limbs taken so far, the remainder a number below d, w the next limb
BDivSmallStep(above, w, d) ==
    IF above[2] = 0 /\ w < d THEN <<BPushLimb(0, above[1]), w>>
    ELSE <<BPushLimb((above[2] * LimbBase + w) \div d, above[1]),
           (above[2] * LimbBase + w) % d>>

RECURSIVE BDivSmall(_, _, _)
\* long division by one limb: <<quotient, remainder>> for the limbs of a from
\* limb i upward
BDivSmall(a, d, i) ==
    IF i > Len(a) THEN <<<<>>, 0>> ELSE BDivSmallStep(BDivSmall(a, d, i + 1), a[i], d)

\* one step of long division by a divisor d of two limbs or more whose top
\* limb is LimbBase / 2 or more: above is <<quotient, remainder>> for the
\* limbs taken so far, w the next limb, x = remainder * LimbBase + w.  The
\* quotient of the two top limbs of x by the top limb of d is the next
\* quotient limb q, or q + 1, or q + 2.
BDivLimb(above, w, d) ==
    IF above[2] = <<>> /\ w = 0 THEN <<BPushLimb(0, above[1]), <<>>>>
    ELSE LET x == <<w>> \o above[2]
             est == (Limb(x, Len(d) + 1) * LimbBase + Limb(x, Len(d))) \div d[Len(d)]
             hi == IF est > LimbBase - 1 THEN LimbBase - 1 ELSE est
             fits == {c \in (IF hi > 2 THEN hi - 2 ELSE 0)..hi : BCmp(BMulSmall(d, c), x) <= 0}
         IN <<BPushLimb(Max(fits), above[1]), BSub(x, BMulSmall(d, Max(fits)))>>

RECURSIVE BDivLimbs(_, _, _)
\* long division by such a divisor: <<quotient, remainder>> for the limbs of
\* n from limb i upward; the top limbs of n, one fewer than d has, are below d
BDivLimbs(n, d, i) ==
    IF i > Len(n) - (Len(d) - 1) THEN <<<<>>, BNorm(SubSeq(n, i, Len(n)))>>
    ELSE BDivLimb(BDivLimbs(n, d, i + 1), n[i], d)

\* <<a div d, a mod d>>, for d > 0; a divisor of several limbs is first
\* scaled, with a, to bring its top limb to LimbBase / 2 or more
BDivMod(a, d) ==
    IF Len(d) = 1
    THEN LET qr == BDivSmall(a, d[1], 1) IN <<qr[1], BFromInt(qr[2])>>
    ELSE LET s == LimbBits - BitLenInt(d[Len(d)])
             qr == BDivLimbs(BShl(a, s), BShl(d, s), 1)
         IN <<qr[1], BShr(qr[2], s)>>

RECURSIVE BFromDigits(_)
\* the value of a digit string, four digits at a time
BFromDigits(ds) ==
    IF Len(ds) <= 4 THEN BFromInt(DigitsValue(ds, 0))
    ELSE BAdd(BMulSmall(BFromDigits(SubSeq(ds, 1, Len(ds) - 4)), 10000),
              BFromInt(DigitsValue(SubSeq(ds, Len(ds) - 3, Len(ds)), 0)))

RECURSIVE BPow10(_)
\* 10^k, by halves of k
BPow10(k) ==
    IF k = 0 THEN <<1>>
    ELSE LET h == BPow10(k \div 2)
         IN IF k % 2 = 0 THEN BMul(h, h) ELSE BMulSmall(BMul(h, h), 10)

-----------------------------------------------------------------------------
(* f64: a finite value is (-1)^neg * m * 2^e with m below 2^53 and e at     *)
(* least MinExponent; a value of 2^MaxBits or more is infinite.  Every      *)
(* operation rounds its exact result to the nearest such value, ties to the *)
(* even mantissa.  Equal values may differ in how m and e share the powers  *)
(* of two.                                                                  *)

MantissaBits == 53
MinExponent == -1074
MaxBits == 1024

Fin(neg, m, e) == [cls |-> "fin", neg |-> neg, m |-> m, e |-> e]
FInf(neg) == [cls |-> "inf", neg |-> neg, m |-> <<>>, e |-> 0]
FNaN == [cls |-> "nan", neg |-> FALSE, m |-> <<>>, e |-> 0]

\* (-1)^neg * m * 2^e for m below 2^53, infinite when out of range
FinOrInf(neg, m, e) ==
    IF m = <<>> THEN Fin(neg, <<>>, 0)
    ELSE IF BitLen(m) + e > MaxBits THEN FInf(neg)
    ELSE Fin(neg, m, e)

\* n div 2^k rounded: up when the bits dropped are more than half of 2^k, or
\* are half of it and the quotient is odd
BShrRound(n, k) ==
    LET q == BShr(n, k)
        c == BCmp(BSub(n, BShl(q, k)), BShl(<<1>>, k - 1))
    IN IF c > 0 \/ (c = 0 /\ BIsOdd(q)) THEN BAdd(q, <<1>>) ELSE q

\* the f64 nearest to (-1)^neg * n * 2^e: the bits of n beyond 53, and those
\* below 2^MinExponent, are rounded away
FRound(neg, n, e) ==
    IF BitLen(n) <= MantissaBits /\ e >= MinExponent THEN FinOrInf(neg, n, e)
    ELSE IF BitLen(n) - MantissaBits >= MinExponent - e
    THEN FinOrInf(neg, BShrRound(n, BitLen(n) - MantissaBits), e + BitLen(n) - MantissaBits)
    ELSE FinOrInf(neg, BShrRound(n, MinExponent - e), MinExponent)

\* the f64 nearest to (-1)^neg * (n / d) * 2^e, for d > 0: the quotient to
\* 56 bits or more, with one more bit that tells whether anything was left
FRoundRatio(neg, n, d, e) ==
    IF n = <<>> THEN Fin(neg, <<>>, 0)
    ELSE LET need == (MantissaBits + 3) + BitLen(d) - BitLen(n)
             s == IF need > 0 THEN need ELSE 0
             qr == BDivMod(BShl(n, s), d)
         IN IF qr[2] = <<>> THEN FRound(neg, BAdd(qr[1], qr[1]), e - s - 1)
            ELSE FRound(neg, BAdd(BAdd(qr[1], qr[1]), <<1>>), e - s - 1)

\* an integer as f64 (u64 as f64, i64 as f64), for integers below 2^31
FFromInt(n) == FRound(n < 0, BFromInt(IF n < 0 THEN -n ELSE n), 0)

FNeg(a) == [a EXCEPT !.neg = ~a.neg]

\* a + b for finite a and b; a zero sum is +0, but -0 + -0 is -0
FAddFin(a, b) ==
    IF a.m = <<>> /\ b.m = <<>> THEN Fin(a.neg /\ b.neg, <<>>, 0)
    ELSE IF a.m = <<>> THEN b
    ELSE IF b.m = <<>> THEN a
    ELSE LET e == IF a.e < b.e THEN a.e ELSE b.e
             x == BShl(a.m, a.e - e)
             y == BShl(b.m, b.e - e)
         IN IF a.neg = b.neg THEN FRound(a.neg, BAdd(x, y), e)
            ELSE IF x = y THEN Fin(FALSE, <<>>, 0)
            ELSE IF BCmp(x, y) > 0 THEN FRound(a.neg, BSub(x, y), e)
            ELSE FRound(b.neg, BSub(y, x), e)

\* f64 +
FAdd(a, b) ==
    IF a.cls = "nan" \/ b.cls = "nan" THEN FNaN
    ELSE IF a.cls = "inf" THEN (IF b.cls = "inf" /\ a.neg # b.neg THEN FNaN ELSE a)
    ELSE IF b.cls = "inf" THEN b
    ELSE FAddFin(a, b)

\* f64 -
FSub(a, b) == FAdd(a, FNeg(b))

\* f64 /
FDiv(a, b) ==
    IF a.cls = "nan" \/ b.cls = "nan" THEN FNaN
    ELSE IF a.cls = "inf" THEN (IF b.cls = "inf" THEN FNaN ELSE FInf(a.neg # b.neg))
    ELSE IF b.cls = "inf" THEN Fin(a.neg # b.neg, <<>>, 0)
    ELSE IF b.m = <<>> THEN (IF a.m = <<>> THEN FNaN ELSE FInf(a.neg # b.neg))
    ELSE FRoundRatio(a.neg # b.neg, a.m, b.m, a.e - b.e)

\* u64::MAX and i64::MAX
U64Max == BSub(BShl(<<1>>, 64), <<1>>)
I64Max == BSub(BShl(<<1>>, 63), <<1>>)

\* `as u64` with the fraction rounded up instead of dropped
CastU64Ceil(f) ==
    IF f.cls = "nan" \/ f.neg \/ (f.cls = "fin" /\ f.m = <<>>) THEN <<>>
    ELSE IF f.cls = "inf" THEN U64Max
    ELSE IF f.e < 0
         THEN (IF BShl(BShr(f.m, -f.e), -f.e) = f.m THEN BShr(f.m, -f.e)
               ELSE BAdd(BShr(f.m, -f.e), <<1>>))
    ELSE IF BitLen(f.m) + f.e > 64 THEN U64Max
    ELSE BShl(f.m, f.e)

\* `as u64` on an f64: the fraction is dropped, NaN and negative values give
\* 0, values above u64::MAX give u64::MAX
CastU64(f) ==
    IF f.cls = "nan" \/ f.neg \/ (f.cls = "fin" /\ f.m = <<>>) THEN <<>>
    ELSE IF f.cls = "inf" THEN U64Max
    ELSE IF f.e < 0 THEN BShr(f.m, -f.e)
    ELSE IF BitLen(f.m) + f.e > 64 THEN U64Max
    ELSE BShl(f.m, f.e)

ToLower(c) ==
    CASE c = "I" -> "i" [] c = "N" -> "n" [] c = "F" -> "f" [] c = "T" -> "t"
      [] c = "Y" -> "y" [] c = "A" -> "a" [] OTHER -> c

\* the decimal exponent of the largest finite f64 (1.797...e308) and that of
\* half the smallest (2.47...e-324)
MaxDecimalExponent == 308
MinDecimalExponent == -324

\* the f64 nearest to (-1)^neg * sig * 10^e10, sig a digit string without
\* leading zeros: a value of 10^309 or more is infinite, one below 10^-324 is
\* zero
DecimalToF64(neg, sig, e10) ==
    IF sig = <<>> THEN Fin(neg, <<>>, 0)
    ELSE IF e10 + Len(sig) - 1 > MaxDecimalExponent THEN FInf(neg)
    ELSE IF e10 + Len(sig) <= MinDecimalExponent THEN Fin(neg, <<>>, 0)
    ELSE IF e10 >= 0 THEN FRound(neg, BMul(BPow10(e10), BFromDigits(sig)), 0)
    ELSE FRoundRatio(neg, BFromDigits(sig), BPow10(-e10), 0)

RECURSIVE ExponentDigits(_, _)
\* the loop over the digits of an exponent: a digit is taken into the value
\* while the value is below 65536, and passed over once it is not
ExponentDigits(ds, exponent) ==
    IF ds = <<>> THEN exponent
    ELSE IF exponent < 65536
    THEN ExponentDigits(Tail(ds), 10 * exponent + DigitVal(Head(ds)))
    ELSE ExponentDigits(Tail(ds), exponent)

\* the value of the digits of an exponent, at most 655359
ExponentValue(ds) == ExponentDigits(ds, 0)

\* str::parse::<f64>: an optional sign, then "inf", "infinity" or "nan" in
\* any case, or digits with an optional "." and an optional exponent, at
\* least one digit before the exponent; the value is the f64 nearest to the
\* decimal
ParseF64(s) ==
    LET neg == s # <<>> /\ Head(s) = "-"
        body == IF s # <<>> /\ Head(s) \in {"+", "-"} THEN Tail(s) ELSE s
        low == [i \in 1..Len(body) |-> ToLower(body[i])]
        ats == {i \in 1..Len(body) : body[i] \in {"e", "E"}}
        mant == IF ats = {} THEN body ELSE SubSeq(body, 1, Min(ats) - 1)
        exp == IF ats = {} THEN <<>> ELSE SubSeq(body, Min(ats) + 1, Len(body))
        expNeg == exp # <<>> /\ Head(exp) = "-"
        expDigits == IF exp # <<>> /\ Head(exp) \in {"+", "-"} THEN Tail(exp) ELSE exp
        parts == SplitOnce(mant, ".")
        int == IF parts = None THEN mant ELSE parts.val[1]
        frac == IF parts = None THEN <<>> ELSE parts.val[2]
        allDigits(t) == \A i \in 1..Len(t) : IsDigit(t[i])
        nonzero == {i \in 1..Len(int \o frac) : (int \o frac)[i] # "0"}
        sig == IF nonzero = {} THEN <<>>
               ELSE SubSeq(int \o frac, Min(nonzero), Len(int \o frac))
        e10 == (IF expNeg THEN -ExponentValue(expDigits) ELSE ExponentValue(expDigits))
                   - Len(frac)
    IN IF low \in {<<"i", "n", "f">>, <<"i", "n", "f", "i", "n", "i", "t", "y">>}
       THEN Ok(FInf(neg))
       ELSE IF low = <<"n", "a", "n">> THEN Ok(FNaN)
       ELSE IF /\ allDigits(int) /\ allDigits(frac) /\ Len(int) + Len(frac) > 0
               /\ (ats # {} => (expDigits # <<>> /\ allDigits(expDigits)))
            THEN Ok(DecimalToF64(neg, sig, e10))
            ELSE Err("FailedToParseAsFloat")

\* Duration::as_secs_f64: secs as f64 + nanos as f64 / 1e9
as_secs_f64(d) == FAdd(FFromInt(d.secs), FDiv(FFromInt(d.nanos), FFromInt(1000000000)))

-----------------------------------------------------------------------------
(* get_start_time *)

\* "start_time is at the 22nd column": stats[21]
StartTimeColumn == 22

\* lines 127-130 with the start subtracted from the boot time instead of added
process_start_time_sub(uptime_seconds, time_stat, rate, now) ==
    CastU64(FSub(FSub(now, uptime_seconds), FDiv(time_stat, rate)))

\* lines 127-130: the process start in whole seconds since the epoch
process_start_time(uptime_seconds, time_stat, rate, now) ==
    LET start_time_in_seconds == FDiv(time_stat, rate)
        boot_time == FSub(now, uptime_seconds)
    IN CastU64(FAdd(boot_time, start_time_in_seconds))

\* the last second of the last year a chrono DateTime holds (year 262142)
ChronoMaxDigits == <<"8", "2", "1", "0", "2", "6", "6", "8", "7", "6", "7", "9", "9">>

\* lines 132-134: Duration::from_secs, UNIX_EPOCH + duration, and the
\* conversion to DateTime<Local>; the DateTime is given by its seconds since
\* the epoch
date_time(secs_since_epoch) ==
    IF BCmp(secs_since_epoch, I64Max) > 0
    THEN Panic("overflow when adding duration to instant")
    ELSE IF BCmp(secs_since_epoch, BFromDigits(ChronoMaxDigits)) > 0
    THEN Panic("out of range DateTime")
    ELSE Ok(secs_since_epoch)

\* the token the code takes as the tick count: stats[21] of the split record
time_stat_str(stats) == stats[StartTimeColumn]

\* get_start_time: uptimeFile and statFile are the outcomes of the two
\* read_to_string calls, rate the tick rate (an integer, held as f64), clock
\* the outcome of duration_since(UNIX_EPOCH)
get_start_time(uptimeFile, statFile, rate, clock) ==
    IF ~IsOk(uptimeFile) THEN Err("FailedToReadFile")
    ELSE LET up == SplitWhitespace(uptimeFile.val)
             uptime_seconds == ParseF64(up[1])
         IN IF up = <<>> THEN Err("FailedToGetUptimeFromStat")
            ELSE IF ~IsOk(uptime_seconds) THEN Err("FailedToParseAsFloat")
            ELSE IF ~IsOk(statFile) THEN Err("FailedToReadFile")
            ELSE LET stats == SplitWhitespace(statFile.val)
                     time_stat == ParseF64(time_stat_str(stats))
                 IN IF Len(stats) < StartTimeColumn THEN Panic("index out of bounds")
                    ELSE IF ~IsOk(time_stat) THEN Err("FailedToParseAsFloat")
                    ELSE IF ~IsOk(clock) THEN Err("FailedToGetSystemTime")
                    ELSE date_time(process_start_time(uptime_seconds.val, time_stat.val,
                                                      FFromInt(rate),
                                                      as_secs_f64(clock.val)))

-----------------------------------------------------------------------------
(* The sources, as the kernel writes them *)

Text_Idle == <<" ", "0", ".", "0", "0", "\n">>

\* /proc/uptime, "%lu.%02lu %lu.%02lu\n", from the uptime in hundredths
UptimeText(centis) ==
    ToDigits(centis \div 100) \o <<".">>
        \o <<Digits[((centis % 100) \div 10) + 1], Digits[(centis % 10) + 1]>>
        \o Text_Idle

\* the outcome of read_to_string(uptime_path) for an uptime source u
UptimeFile(u) ==
    CASE u.kind = "unreadable" -> Err("io")
      [] u.kind = "empty" -> Ok(<<"\n">>)
      [] u.kind = "garbage" -> Ok(<<"u", "p", "\n">>)
      [] OTHER -> Ok(UptimeText(u.centis))

RECURSIVE BToDigits(_)
\* the decimal text of a natural number of any size, as %llu prints it, four
\* digits at a time
BToDigits(a) ==
    IF Len(a) <= 1 THEN ToDigits(BToInt(a))
    ELSE LET qr == BDivMod(a, <<10000>>)
             low == ToDigits(10000 + BToInt(qr[2]))
         IN BToDigits(qr[1]) \o SubSeq(low, 2, 5)

\* column k >= 3 of /proc/<pid>/stat for a stat source st, whose starttime
\* (an unsigned long long) is a natural number of any size below 2^64
StatColumn(st, k) ==
    IF k = 3 THEN <<"S">>
    ELSE IF k = StartTimeColumn
         THEN (IF st.numeric THEN BToDigits(st.starttime) ELSE <<"x">>)
         ELSE ToDigits(k)

RECURSIVE StatColumns(_, _)
\* columns k..st.ncols, each preceded by a space
StatColumns(st, k) ==
    IF k > st.ncols THEN <<>>
    ELSE <<" ">> \o StatColumn(st, k) \o StatColumns(st, k + 1)

\* /proc/<pid>/stat: "pid (comm) S ..." on one line
StatText(st) ==
    ToDigits(st.pid) \o <<" ", "(">> \o st.comm \o <<")">>
        \o StatColumns(st, 3) \o <<"\n">>

\* the outcome of read_to_string(stat_path) for a stat source st
StatFile(st) == IF st.readable THEN Ok(StatText(st)) ELSE Err("io")

\* the outcome of SystemTime::now().duration_since(UNIX_EPOCH), a Duration of
\* whole seconds and nanoseconds, the clock given in hundredths of a second
\* since the epoch (negative: before it)
ClockResult(c) ==
    IF c < 0 THEN Err("SystemTimeError")
    ELSE Ok([secs |-> c \div 100, nanos |-> (c % 100) * 10000000])

-----------------------------------------------------------------------------
(* Bounds *)

\* a status text is at most this many pieces long
MaxChunks == 4
\* the tick counts are TickBase + TickStep * k for k up to this
MaxTickSteps == 6
\* columns of a full stat record, and of a truncated one
FullColumns == 24
ShortColumns == 5
\* entries in a listing of /proc
MaxEntries == 2

NotCalled == [kind |-> "NotCalled"]

-----------------------------------------------------------------------------
(* find_state on one status source *)

Text_State == StateMarker
Text_Tab == <<"\t">>
Text_Newline == <<"\n">>
Text_Space == <<" ">>
Text_Sleeping == <<"S", " ", "(", "s", "l", "e", "e", "p", "i", "n", "g", ")">>
Text_NameLine == <<"N", "a", "m", "e", ":", "\t", "p", "s", "\n">>

StatusChunks == {Text_State, Text_Tab, Text_Newline, Text_Space, Text_Sleeping, Text_NameLine}

RECURSIVE SeqsUpTo(_, _)
\* the sequences over S of length at most n
SeqsUpTo(S, n) ==
    IF n = 0 THEN {<<>>}
    ELSE LET shorter == SeqsUpTo(S, n - 1)
         IN shorter \cup {Append(q, x) : q \in {r \in shorter : Len(r) = n - 1}, x \in S}

\* outcomes of read_to_string(state_path)
StatusFiles == {Err("io")} \cup {Ok(Concat(cs)) : cs \in SeqsUpTo(StatusChunks, MaxChunks)}

IdleHost ==
    /\ procOpen = FALSE /\ sysconfRet = 0 /\ errno = 0
    /\ listing = <<>> /\ alive = {}

IdleEnum ==
    /\ pc = "idle" /\ idx = 0 /\ seen = <<>> /\ tickRate = 0 /\ cur = None
    /\ vec = <<>> /\ result = NotCalled /\ reads = <<>> /\ vanished = {}

IdleFs == fsFile = Err("io") /\ fsOut = NotCalled

IdleSt ==
    /\ stUptime = [kind |-> "unreadable", centis |-> 0]
    /\ stStat = [readable |-> FALSE, pid |-> 0, comm |-> <<>>, ncols |-> 0,
                 numeric |-> FALSE, starttime |-> <<>>]
    /\ stRate = 0 /\ stClock = 0 /\ stOut = NotCalled /\ stPrev = None

InitFindState ==
    /\ fsFile \in StatusFiles
    /\ fsOut = NotCalled
    /\ IdleHost /\ IdleEnum /\ IdleSt

\* get_process lines 205-209 on the source fsFile
ReadStateField ==
    /\ fsOut = NotCalled
    /\ fsOut' = read_state(fsFile)
    /\ UNCHANGED <<fsFile, hostVars, enumVars, stVars>>

NextFindState == ReadStateField

SpecFindState == InitFindState /\ [][NextFindState]_vars

\* the lines of the status text that begin with the marker
MarkerLines(text) == {i \in 1..Len(Lines(text)) : StartsWith(Lines(text)[i], StateMarker)}

\* C10 (as amended): find_state decides on the first line beginning with
\* "State:": it returns the text after that line's first tab, and returns absent
\* exactly when no line begins with "State:" or that first line holds no tab;
\* an unreadable status source leaves the state absent.
C10_FirstMarkerLineDecides ==
    fsOut # NotCalled =>
        IF ~IsOk(fsFile) THEN fsOut = None
        ELSE IF MarkerLines(fsFile.val) = {} THEN fsOut = None
        ELSE LET l == Lines(fsFile.val)[Min(MarkerLines(fsFile.val))]
                 tabs == {k \in 1..Len(l) : l[k] = "\t"}
             IN IF tabs = {} THEN fsOut = None
                ELSE fsOut = Some(SubSeq(l, Min(tabs) + 1, Len(l)))

\* C10 witness: "State:\tS (sleeping)" after another line gives "S (sleeping)"
C10_Witness ==
    /\ fsFile = Ok(Text_NameLine \o Text_State \o Text_Tab \o Text_Sleeping)
    /\ fsOut = Some(Text_Sleeping)

\* C10 (as stated): the state is absent exactly when the text has no line
\* beginning with "State:"
C10_AbsentIffNoMarkerLine ==
    (fsOut # NotCalled /\ IsOk(fsFile)) =>
        (fsOut = None <=> MarkerLines(fsFile.val) = {})

-----------------------------------------------------------------------------
(* get_start_time on one set of sources *)

\* command names: plain, with a space (as "tmux: server"), with two spaces
Comms == {<<"p", "s">>, <<"a", " ", "b">>, <<"a", " ", "b", " ", "c">>}

\* the largest starttime the kernel can print
HugeTicks == U64Max

\* ticks since boot of a process: none, a run of ordinary counts (99 apart,
\* so that a sum of hundredths comes out a whole second), and the largest
TickVals ==
    {BFromInt(0), HugeTicks} \cup {BFromInt(12345 + 99 * k) : k \in 0..MaxTickSteps}

\* tick rates sysconf(_SC_CLK_TCK) may report
TickRates == {1, 100, 300}

UptimeSources ==
    {[kind |-> k, centis |-> 0] : k \in {"unreadable", "empty", "garbage"}}
        \cup {[kind |-> "kernel", centis |-> c] : c \in {50, 4826742}}

StatSourcesOf(pid) ==
    {[readable |-> FALSE, pid |-> pid, comm |-> <<"p", "s">>, ncols |-> FullColumns,
      numeric |-> FALSE, starttime |-> <<>>]}
        \cup {[readable |-> TRUE, pid |-> pid, comm |-> c, ncols |-> n,
               numeric |-> TRUE, starttime |-> t] :
                  c \in Comms, n \in {FullColumns, ShortColumns}, t \in TickVals}
        \cup {[readable |-> TRUE, pid |-> pid, comm |-> c, ncols |-> n,
               numeric |-> FALSE, starttime |-> <<>>] :
                  c \in Comms, n \in {FullColumns, ShortColumns}}

\* the wall clock in hundredths of a second since the epoch; -1: before it
ClockVals == {-1, 10000, 4926742, 4926799}

InitStartTime ==
    /\ stUptime \in UptimeSources
    /\ stStat \in StatSourcesOf(42)
    /\ stRate \in TickRates
    /\ stClock \in ClockVals
    /\ stOut = NotCalled
    /\ stPrev = None
    /\ IdleHost /\ IdleEnum /\ IdleFs

\* get_start_time on the sources of the state
CallStartTime ==
    /\ stOut = NotCalled
    /\ stOut' = get_start_time(UptimeFile(stUptime), StatFile(stStat), stRate,
                               ClockResult(stClock))
    /\ UNCHANGED <<stUptime, stStat, stRate, stClock, stPrev, hostVars, enumVars, fsVars>>

\* get_start_time again, for a process with tick count t, the uptime, tick
\* rate and clock being as before
CallForOtherProcess(t) ==
    /\ stOut # NotCalled /\ stPrev = None
    /\ stStat.readable /\ stStat.numeric
    /\ stPrev' = Some([ticks |-> stStat.starttime, out |-> stOut])
    /\ stStat' = [stStat EXCEPT !.starttime = t]
    /\ stOut' = get_start_time(UptimeFile(stUptime), StatFile(stStat'), stRate,
                               ClockResult(stClock))
    /\ UNCHANGED <<stUptime, stRate, stClock, hostVars, enumVars, fsVars>>

NextStartTime ==
    \/ CallStartTime
    \/ \E t \in TickVals : CallForOtherProcess(t)

SpecStartTime == InitStartTime /\ [][NextStartTime]_vars

\* the whitespace-delimited tokens of the stat source of the state
StatTokens == IF stStat.readable THEN SplitWhitespace(StatText(stStat)) ELSE <<>>

\* uptime, stat record and wall clock are readable and valid
SourcesValid ==
    /\ stUptime.kind = "kernel"
    /\ Len(StatTokens) >= 22
    /\ \A i \in 1..Len(StatTokens[22]) : IsDigit(StatTokens[22][i])
    /\ stClock >= 0

\* the 22nd token as a number
TokenTicks == BFromDigits(StatTokens[22])

\* ticks / rate - uptime alone is past the last second of the calendar:
\* 100 * ticks >= 100 * rate * (last second + 1) + rate * uptime in hundredths
BeyondCalendar ==
    BCmp(BMulSmall(TokenTicks, 100),
         BAdd(BMulSmall(BMulSmall(BAdd(BFromDigits(ChronoMaxDigits), <<1>>), 100),
                        stRate),
              BFromInt(stUptime.centis * stRate))) >= 0

\* ((now - uptime) + ticks / rate) * 100 * rate, ticks being the 22nd token
ScaledStart == (stClock - stUptime.centis) * stRate + 100 * BToInt(TokenTicks)

\* C7 (as amended): with valid sources get_start_time returns the whole
\* seconds of (now - uptime) + ticks / tick_rate as f64 arithmetic gives it,
\* ticks being the 22nd token of the stat record: the whole seconds of the
\* exact sum, or one second less where the exact sum is a whole second and the
\* rounded one falls just below it; a negative sum gives 0, the epoch itself;
\* a sum past the last second of the calendar gives no timestamp, the call
\* panics.
C7_StartTimeIsTruncatedSum ==
    (stOut # NotCalled /\ SourcesValid) =>
        IF BeyondCalendar THEN stOut.kind = "Panic"
        ELSE /\ IsOk(stOut)
             /\ IF ScaledStart >= 0
                THEN /\ BToInt(stOut.val) * 100 * stRate <= ScaledStart
                     /\ ScaledStart <= (BToInt(stOut.val) + 1) * 100 * stRate
                ELSE stOut.val = <<>>

\* C7 witness: uptime 48267.42, ticks 12345, rate 100, now = 1000 + 48267.42
\* give 1000 + 123.45 truncated, 1123
C7_Witness ==
    /\ stUptime = [kind |-> "kernel", centis |-> 4826742]
    /\ stStat.readable /\ stStat.comm = <<"p", "s">> /\ stStat.ncols = FullColumns
    /\ stStat.numeric /\ stStat.starttime = BFromInt(12345)
    /\ stRate = 100 /\ stClock = 4926742
    /\ stOut = Ok(BFromInt(1123))

\* C7 (as stated): with valid sources the call returns (now - uptime) +
\* ticks / tick_rate truncated to whole seconds, whatever its sign and size
C7_ExactSumTruncated ==
    (stOut # NotCalled /\ SourcesValid) =>
        /\ IsOk(stOut)
        /\ ~BeyondCalendar =>
            IF ScaledStart >= 0
            THEN /\ BToInt(stOut.val) * 100 * stRate <= ScaledStart
                 /\ ScaledStart < (BToInt(stOut.val) + 1) * 100 * stRate
            ELSE /\ (BToInt(stOut.val) - 1) * 100 * stRate < ScaledStart
                 /\ ScaledStart <= BToInt(stOut.val) * 100 * stRate

\* C8: with uptime, tick rate and clock fixed, of two calls that return a
\* timestamp the one with the larger tick count never gives the earlier one.
C8_MonotonicInTicks ==
    (stPrev # None /\ IsOk(stPrev.val.out) /\ IsOk(stOut)) =>
        /\ BCmp(stPrev.val.ticks, stStat.starttime) <= 0
               => BCmp(stPrev.val.out.val, stOut.val) <= 0
        /\ BCmp(stStat.starttime, stPrev.val.ticks) <= 0
               => BCmp(stOut.val, stPrev.val.out.val) <= 0

\* C8 witness: a larger tick count, the other inputs unchanged, giving a later
\* timestamp
C8_Witness ==
    /\ stPrev # None /\ IsOk(stPrev.val.out) /\ IsOk(stOut)
    /\ stStat.comm = <<"p", "s">>
    /\ BCmp(stPrev.val.ticks, stStat.starttime) < 0
    /\ BCmp(stPrev.val.out.val, stOut.val) < 0

\* C9 (as stated): the tick count used is the ticks-since-boot field of the
\* process's record, whatever its command name
C9_TicksAreTheStartTimeField ==
    (/\ stOut # NotCalled
     /\ stUptime.kind = "kernel" /\ stClock >= 0
     /\ stStat.readable /\ stStat.numeric /\ stStat.ncols >= StartTimeColumn) =>
        stOut = date_time(process_start_time(
                              FRoundRatio(FALSE, BFromInt(stUptime.centis), <<100>>, 0),
                              FRound(FALSE, stStat.starttime, 0),
                              FFromInt(stRate),
                              as_secs_f64(ClockResult(stClock).val)))

-----------------------------------------------------------------------------
(* get_processes and get_process over a /proc that changes under them *)

Text_Cmdline == <<"p", "s">>
Text_Exe == <<"/", "b", "i", "n", "/", "p", "s">>
Text_Root == <<"r", "o", "o", "t">>

\* what sysconf(_SC_CLK_TCK) may return: -1 for failure, or the tick rate
SysconfVals == {-1, 100}

\* what read_dir("/proc") may yield: process directories, another directory,
\* a plain file, and an entry whose read fails
ProcEntries ==
    {[kind |-> "proc", name |-> <<"1">>], [kind |-> "proc", name |-> <<"4", "2">>],
     [kind |-> "dir", name |-> <<"s", "y", "s">>],
     [kind |-> "file", name |-> <<"u", "p", "t", "i", "m", "e">>],
     [kind |-> "error", name |-> <<>>]}

\* listings: up to MaxEntries entries, none twice
Listings ==
    {l \in SeqsUpTo(ProcEntries, MaxEntries) :
        \A i, j \in 1..Len(l) : i # j => l[i] # l[j]}

\* Path::is_dir of /proc/<name>: a process directory exists while it lives
EntryIsDir(e) == e.kind = "dir" \/ (e.kind = "proc" /\ e.name \in alive)

\* libc::getpwuid: the user database knows uid 0 only
PasswdName(uid) == IF uid = 0 THEN Some(Text_Root) ELSE None

\* lines 186-194: the owner text of a uid
OwnerOf(uid) ==
    IF PasswdName(uid) = None THEN Some(ToDigits(uid)) ELSE Some(PasswdName(uid).val)

\* outcomes of a read below /proc/<name>: it fails once the process is gone,
\* and may fail while it lives (permissions)
ReadOutcomes(name, contents) ==
    {Err("io")} \cup (IF name \in alive THEN {Ok(c) : c \in contents} ELSE {})

\* stat sources a process pid may show during the enumeration
StatSourcesSeen(pid) ==
    {st \in StatSourcesOf(pid) :
        /\ st.comm = <<"p", "s">>
        /\ st.numeric => st.starttime = BFromInt(12345)}

\* stat sources of process pid at the time of the read
StatSourcesNow(name, pid) ==
    {st \in StatSourcesSeen(pid) : st.readable => name \in alive}

\* uptime sources at the time of the read
UptimeSourcesNow == {u \in UptimeSources : u.kind \in {"unreadable", "garbage"} \/ u.centis = 4826742}

\* the wall clock at the time of the read
ClockValsNow == {-1, 4926742}

\* the pids of the process directories
ProcPids == {ParseU32(e.name).val : e \in {x \in ProcEntries : x.kind = "proc"}}

\* get_start_time on every combination of sources get_process can meet, each
\* call with its result
StartTimeCalls ==
    {<<k, get_start_time(UptimeFile(k[1]), StatFile(k[2]), k[3], ClockResult(k[4]))>> :
        k \in UptimeSourcesNow \X (UNION {StatSourcesSeen(p) : p \in ProcPids})
                 \X SysconfVals \X ClockValsNow}

\* the result of get_start_time on these sources
StartTimeCall(u, st, rate, c) ==
    (CHOOSE call \in StartTimeCalls : call[1] = <<u, st, rate, c>>)[2]

\* status sources: unreadable, with a state line, without one
StatusFile(kind) ==
    CASE kind = "state" -> Ok(Text_NameLine \o Text_State \o Text_Tab \o Text_Sleeping \o Text_Newline)
      [] kind = "nostate" -> Ok(Text_NameLine)
      [] OTHER -> Err("io")

StatusSourcesNow(name) ==
    {"unreadable"} \cup (IF name \in alive THEN {"state", "nostate"} ELSE {})

\* lines 161-168
NewProcess(pid) ==
    [pid |-> pid, cmdline |-> None, binary_path |-> None, owner |-> None,
     start_time |-> None, state |-> None]

NoReads(pid) ==
    [pid |-> pid, cmdline |-> FALSE, binary_path |-> FALSE, owner |-> FALSE,
     start_time |-> FALSE, state |-> FALSE]

Init ==
    /\ procOpen \in BOOLEAN
    /\ sysconfRet \in SysconfVals
    /\ errno = 0
    /\ listing \in Listings
    /\ alive = {listing[i].name : i \in {j \in 1..Len(listing) : listing[j].kind = "proc"}}
    /\ pc = "read_dir" /\ idx = 0 /\ seen = <<>> /\ tickRate = 0 /\ cur = None
    /\ vec = <<>> /\ result = NotCalled /\ reads = <<>> /\ vanished = {}
    /\ IdleFs /\ IdleSt

\* line 228: read_dir("/proc").unwrap()
ReadDir ==
    /\ pc = "read_dir"
    /\ IF procOpen
       THEN pc' = "sysconf" /\ UNCHANGED result
       ELSE pc' = "done" /\ result' = Panic("read_dir unwrap")
    /\ UNCHANGED <<hostVars, idx, seen, tickRate, cur, vec, reads, vanished, fsVars, stVars>>

\* lines 231-237 without the early return
SysconfUnchecked ==
    /\ pc = "sysconf"
    /\ tickRate' = sysconfRet
    /\ pc' = "next_entry"
    /\ UNCHANGED <<hostVars, result, idx, seen, cur, vec, reads, vanished, fsVars, stVars>>

\* lines 231-237: the tick rate, or the error carrying errno
Sysconf ==
    /\ pc = "sysconf"
    /\ tickRate' = sysconfRet
    /\ IF sysconfRet = -1
       THEN \E e \in {0, 22} :
               /\ errno' = e
               /\ result' = Err([name |-> "FailedToGetSysClockTickRate", code |-> e])
               /\ pc' = "done"
       ELSE pc' = "next_entry" /\ UNCHANGED <<errno, result>>
    /\ UNCHANGED <<procOpen, sysconfRet, listing, alive, idx, seen, cur, vec, reads,
                   vanished, fsVars, stVars>>

\* lines 240-241 and 252: the next entry, unwrapped, or the end of the loop
NextEntry ==
    /\ pc = "next_entry"
    /\ IF idx = Len(listing)
       THEN pc' = "done" /\ result' = Ok(vec) /\ UNCHANGED idx
       ELSE /\ idx' = idx + 1
            /\ IF listing[idx + 1].kind = "error"
               THEN pc' = "done" /\ result' = Panic("dir entry unwrap")
               ELSE pc' = "is_dir" /\ UNCHANGED result
    /\ UNCHANGED <<hostVars, seen, tickRate, cur, vec, reads, vanished, fsVars, stVars>>

\* lines 243-245 taking every entry for a directory
IsDirUnchecked ==
    /\ pc = "is_dir"
    /\ seen' = Append(seen, EntryIsDir(listing[idx]))
    /\ pc' = "get_process"
    /\ UNCHANGED <<hostVars, idx, tickRate, cur, vec, result, reads, vanished, fsVars, stVars>>

\* lines 243-245: only directories go on
IsDir ==
    /\ pc = "is_dir"
    /\ seen' = Append(seen, EntryIsDir(listing[idx]))
    /\ pc' = IF EntryIsDir(listing[idx]) THEN "get_process" ELSE "next_entry"
    /\ UNCHANGED <<hostVars, idx, tickRate, cur, vec, result, reads, vanished, fsVars, stVars>>

\* lines 151-168 and 214: the name parsed as u32, the empty Process
GetProcessEnter ==
    /\ pc = "get_process"
    /\ LET parsed == ParseU32(listing[idx].name)
       IN IF IsOk(parsed)
          THEN /\ cur' = NewProcess(parsed.val)
               /\ reads' = Append(reads, NoReads(parsed.val))
               /\ pc' = "cmdline"
          ELSE pc' = "next_entry" /\ UNCHANGED <<cur, reads>>
    /\ UNCHANGED <<hostVars, idx, seen, tickRate, vec, result, vanished, fsVars, stVars>>

\* lines 170-173
ReadCmdline ==
    /\ pc = "cmdline"
    /\ \E f \in ReadOutcomes(listing[idx].name, {Text_Cmdline}) :
          /\ cur' = [cur EXCEPT !.cmdline = IF IsOk(f) THEN Some(f.val) ELSE None]
          /\ reads' = [reads EXCEPT ![Len(reads)].cmdline = IsOk(f)]
    /\ pc' = "exe"
    /\ UNCHANGED <<hostVars, idx, seen, tickRate, vec, result, vanished, fsVars, stVars>>

\* lines 175-177
ReadExe ==
    /\ pc = "exe"
    /\ \E f \in ReadOutcomes(listing[idx].name, {Text_Exe}) :
          /\ cur' = [cur EXCEPT !.binary_path = IF IsOk(f) THEN Some(f.val) ELSE None]
          /\ reads' = [reads EXCEPT ![Len(reads)].binary_path = IsOk(f)]
    /\ pc' = "owner"
    /\ UNCHANGED <<hostVars, idx, seen, tickRate, vec, result, vanished, fsVars, stVars>>

\* lines 179-197: the uid of the directory entry, through the user database
ReadOwner ==
    /\ pc = "owner"
    /\ \E m \in ReadOutcomes(listing[idx].name, {0, 1000}) :
          /\ cur' = [cur EXCEPT !.owner = IF IsOk(m) THEN OwnerOf(m.val) ELSE None]
          /\ reads' = [reads EXCEPT ![Len(reads)].owner = IsOk(m)]
    /\ pc' = "start_time"
    /\ UNCHANGED <<hostVars, idx, seen, tickRate, vec, result, vanished, fsVars, stVars>>

\* line 202: eprintln! of the error, stderrOk telling whether stderr can be
\* written; the macro panics when it cannot
eprintln(stderrOk) == IF stderrOk THEN Ok(<<>>) ELSE Panic("failed printing to stderr")

\* lines 199-203: get_start_time; an error is printed and leaves the field
\* absent, a panic (of get_start_time, or of the print) unwinds through
\* get_process and get_processes
StartTime ==
    /\ pc = "start_time"
    /\ \E u \in UptimeSourcesNow, st \in StatSourcesNow(listing[idx].name, cur.pid),
          c \in ClockValsNow, stderrOk \in BOOLEAN :
          \E r \in {StartTimeCall(u, st, tickRate, c)} :
             /\ reads' = [reads EXCEPT ![Len(reads)].start_time =
                              /\ u.kind = "kernel" /\ c >= 0
                              /\ st.readable /\ st.numeric /\ st.ncols >= StartTimeColumn]
             /\ IF r.kind = "Panic"
                THEN pc' = "done" /\ result' = r /\ UNCHANGED cur
                ELSE IF r.kind = "Err" /\ eprintln(stderrOk).kind = "Panic"
                THEN pc' = "done" /\ result' = eprintln(stderrOk) /\ UNCHANGED cur
                ELSE /\ cur' = [cur EXCEPT !.start_time =
                                    IF IsOk(r) THEN Some(r.val) ELSE None]
                     /\ pc' = "status" /\ UNCHANGED result
    /\ UNCHANGED <<hostVars, idx, seen, tickRate, vec, vanished, fsVars, stVars>>

\* lines 205-209 with the status read nested in the cmdline success branch
ReadStatusIfCmdline ==
    /\ pc = "status"
    /\ \E k \in StatusSourcesNow(listing[idx].name) :
          /\ vec' = Append(vec, [cur EXCEPT !.state =
                        IF cur.cmdline = None THEN None ELSE read_state(StatusFile(k))])
          /\ reads' = [reads EXCEPT ![Len(reads)].state = (k = "state")]
    /\ cur' = None
    /\ pc' = "next_entry"
    /\ UNCHANGED <<hostVars, idx, seen, tickRate, result, vanished, fsVars, stVars>>

\* lines 205-211 and 248-250: the state, then the Process returned and pushed
ReadStatus ==
    /\ pc = "status"
    /\ \E k \in StatusSourcesNow(listing[idx].name) :
          /\ vec' = Append(vec, [cur EXCEPT !.state = read_state(StatusFile(k))])
          /\ reads' = [reads EXCEPT ![Len(reads)].state = (k = "state")]
    /\ cur' = None
    /\ pc' = "next_entry"
    /\ UNCHANGED <<hostVars, idx, seen, tickRate, result, vanished, fsVars, stVars>>

\* position of the entry named n in the listing
PositionOf(n) == CHOOSE i \in 1..Len(listing) : listing[i].name = n

\* the extraction of entry i has completed
Completed(i) == i < idx \/ (i = idx /\ pc \in {"next_entry", "done"})

\* a listed process exits before its extraction has completed (a later exit
\* changes nothing get_processes reads)
ProcessExit(n) ==
    /\ pc \notin {"idle", "done"}
    /\ n \in alive
    /\ ~Completed(PositionOf(n))
    /\ alive' = alive \ {n}
    /\ vanished' = vanished \cup {n}
    /\ UNCHANGED <<procOpen, sysconfRet, errno, listing, pc, idx, seen, tickRate, cur,
                   vec, result, reads, fsVars, stVars>>

Next ==
    \/ ReadDir
    \/ Sysconf
    \/ NextEntry
    \/ IsDir
    \/ GetProcessEnter
    \/ ReadCmdline
    \/ ReadExe
    \/ ReadOwner
    \/ StartTime
    \/ ReadStatus
    \/ \E n \in alive : ProcessExit(n)

Spec == Init /\ [][Next]_vars

-----------------------------------------------------------------------------
(* Properties of get_processes and get_process *)

\* the listing failed: /proc could not be opened, or an entry read failed
ListingFailed == ~procOpen \/ \E i \in 1..idx : listing[i].kind = "error"

\* a name made of decimal digits only
IsNumeral(name) == name # <<>> /\ \A i \in 1..Len(name) : IsDigit(name[i])

RECURSIVE PidsExpected(_)
\* the numbers named by the first i entries that were found to be directories
\* with a numeral for a name, in listing order
PidsExpected(i) ==
    IF i = 0 THEN <<>>
    ELSE IF seen[i] /\ IsNumeral(listing[i].name)
         THEN Append(PidsExpected(i - 1), DigitsValue(listing[i].name, 0))
         ELSE PidsExpected(i - 1)

Present(field) == field # None

\* C1 (as amended): /proc is opened before the tick rate is resolved; whenever
\* /proc was opened and the clock-tick-rate query fails, get_processes returns
\* FailedToGetSysClockTickRate carrying errno, and on a host where the query
\* fails no entry is ever taken and no process extracted.
C1_ClockRateErrorOnceProcIsOpen ==
    /\ sysconfRet = -1 => (vec = <<>> /\ reads = <<>> /\ idx = 0)
    /\ (pc = "done" /\ procOpen /\ sysconfRet = -1) =>
          result = Err([name |-> "FailedToGetSysClockTickRate", code |-> errno])

\* C1 witness: the error returned on a host whose /proc lists a process
C1_Witness ==
    /\ pc = "done" /\ procOpen /\ sysconfRet = -1
    /\ listing # <<>> /\ listing[1].kind = "proc"
    /\ result = Err([name |-> "FailedToGetSysClockTickRate", code |-> 22])

\* C1 (as stated): whenever the query would fail, in every state of the process
\* root, get_processes returns the clock-rate error with zero records
C1_ClockRateErrorInEveryRootState ==
    (pc = "done" /\ sysconfRet = -1) =>
        /\ result.kind = "Err"
        /\ result.err.name = "FailedToGetSysClockTickRate"
        /\ vec = <<>>

\* C2 (as stated): a listing failure reaches the caller as an error value
\* naming the listing failure, with no records; nothing else aborts the call
C2_ListingFailureIsReturned ==
    (pc = "done" /\ ListingFailed) =>
        /\ result.kind = "Err"
        /\ result.err.name = "FailedToReadFile"

\* C3 (as stated): every extraction that was started returned a record
\* carrying its pid, whatever its sources held
C3_ExtractionReturnsRecord ==
    pc = "done" =>
        /\ Len(vec) = Len(reads)
        /\ \A i \in 1..Len(vec) : vec[i].pid = reads[i].pid

\* C4 (as stated): the snapshot holds no record for a process that exited
\* before its extraction completed
C4_VanishedProcessOmitted ==
    (pc = "done" /\ IsOk(result)) =>
        \A i \in 1..Len(result.val) : ToDigits(result.val[i].pid) \notin vanished

\* C5: in every record the pid is the one the extraction began with, and each
\* optional field is present exactly when its own source was readable and
\* valid, whatever the other sources did.
C5_FieldsFollowTheirOwnSource ==
    \A i \in 1..Len(vec) :
        /\ vec[i].pid = reads[i].pid
        /\ Present(vec[i].cmdline) <=> reads[i].cmdline
        /\ Present(vec[i].binary_path) <=> reads[i].binary_path
        /\ Present(vec[i].owner) <=> reads[i].owner
        /\ Present(vec[i].start_time) <=> reads[i].start_time
        /\ Present(vec[i].state) <=> reads[i].state

\* C5 witness: two records with complementary sets of present fields
C5_Witness ==
    /\ Len(vec) = 2
    /\ Present(vec[1].cmdline) /\ ~Present(vec[1].binary_path) /\ Present(vec[1].owner)
    /\ ~Present(vec[1].start_time) /\ Present(vec[1].state)
    /\ ~Present(vec[2].cmdline) /\ Present(vec[2].binary_path) /\ ~Present(vec[2].owner)
    /\ Present(vec[2].start_time) /\ ~Present(vec[2].state)

\* C6: a successful call returns, in listing order, one record for each entry
\* found to be a directory whose name is a numeral, its pid the number named,
\* and nothing else; so the records never outnumber the listed numerals.
C6_RecordsAreTheNumericDirectories ==
    (pc = "done" /\ IsOk(result)) =>
        /\ Len(seen) = Len(listing)
        /\ [i \in 1..Len(result.val) |-> result.val[i].pid] = PidsExpected(Len(listing))
        /\ Len(result.val) <= Cardinality({i \in 1..Len(listing) : IsNumeral(listing[i].name)})

\* C6 witness: of a process that exited before the directory check and one that
\* lived, only the second has a record
C6_Witness ==
    /\ pc = "done" /\ IsOk(result)
    /\ Len(listing) = 2 /\ listing[1].kind = "proc" /\ listing[2].kind = "proc"
    /\ seen = <<FALSE, TRUE>>
    /\ Len(result.val) = 1 /\ ToDigits(result.val[1].pid) = listing[2].name

====
